---- MODULE Spec2Model ----
(***************************************************************************)
(* Orbit/zoom camera controller of the "interactive earth" page and of its *)
(* Game-object refactor, with the scene builder and the clamp helper.      *)
(*                                                                         *)
(* Two pages are modelled side by side and are fed the same host events:   *)
(*   earthPage  the standalone script  (main.js of interactive-earth)      *)
(*   gamePage   the game driver        (main.js of the game + class Game)  *)
(*                                                                         *)
(* Numbers.  JavaScript numbers are modelled in fixed point:               *)
(*   seconds, radians and radians/second in units of 1/SCALE  (1e-3),      *)
(*   zoom, tanh, the zoom factor and camera coordinates in units of        *)
(*   1/ZSCALE (1e-4).                                                      *)
(* Every product and quotient is rounded to the nearest unit, as a         *)
(* floating-point operation rounds to the nearest representable value.     *)
(***************************************************************************)
EXTENDS Integers, Sequences, FiniteSets, TLC

VARIABLES pc,          \* "loading" until window.onload has run initialize
          now,         \* host: timestamp (ms) of the last frame callback
          earthPage,   \* module state of the standalone script
          gamePage,    \* module state of the game driver, with its Game object
          frames,      \* host: number of frame callbacks fired
          wheels,      \* host: number of wheel deliveries (events or bursts)
          call,        \* a call of the clamp helper on its own: [x, lo, hi, ret]; ret is <<>> until it returns
          pointer      \* host: the vertical part of the last mousemove event of a run that
                       \* keeps it, [clientY, y] with y as the game driver computes it; <<>> before

vars == <<pc, now, earthPage, gamePage, frames, wheels, call, pointer>>

Undefined == "undefined"

-----------------------------------------------------------------------------
(* Bounds of the exploration *)

\* frame callbacks fired
MaxFrames == 2

\* wheel deliveries (single events or bursts) that carry a non-zero delta
MaxWheel == 1

\* wheel deliveries when only the wheel is used (SpecWheel)
MaxScroll == 3

\* arguments of clamp on its own (SpecClamp)
MaxClampArg == 3

\* wheel events of one fast scroll
BurstLen == 40

\* frame-to-frame timestamp increments (ms) the host may produce
Dts == {0, 100, 1000}

\* wheel deltas the host may deliver
DeltaYs == {-1000, 0, 10}

\* wheel deltas of a fast scroll
BurstDeltaYs == {-1000, 1000}

\* wheel deltas when only the wheel is used (SpecWheel)
ScrollDeltaYs == {-1000, -10, -1, 0, 1, 10, 1000}

\* #main_canvas when the page loads: its client size
Loaded == [clientWidth |-> 400, clientHeight |-> 300]

\* what getBoundingClientRect may return when a mousemove event arrives: the
\* canvas as it was laid out at load, or enlarged and moved by a later layout
Rects == { [left |-> 0, width |-> 400, height |-> 300],
           [left |-> 100, width |-> 800, height |-> 600] }

\* pointer positions over a canvas that occupies rect: the two edges and the middle
ClientXs(rect) == { rect.left, rect.left + rect.width \div 2, rect.left + rect.width }

ClientYs(rect) == { 0, rect.height }

-----------------------------------------------------------------------------
(* Fixed-point arithmetic *)

SCALE == 1000

ZSCALE == 10000

Abs(a) == IF a < 0 THEN -a ELSE a

\* a / b rounded to the nearest integer, halves away from zero (b > 0)
Round(a, b) == IF a >= 0 THEN (2 * a + b) \div (2 * b)
                         ELSE -((2 * (-a) + b) \div (2 * b))

\* product of two numbers in units of 1/SCALE
Mul(a, b) == Round(a * b, SCALE)

\* product of two numbers in units of 1/ZSCALE
ZMul(a, b) == Round(a * b, ZSCALE)

-----------------------------------------------------------------------------
(* Math.tanh, ** 0.3, Math.cos, Math.sin *)

\* tanh(1) in units of 1/ZSCALE
Tanh1 == 7616

\* Math.tanh(x) = 1 exactly in double precision from here on
TanhSat == 20

RECURSIVE TanhNat(_)
\* tanh(n) for a natural n, by tanh(a+1) = (tanh a + tanh 1) / (1 + tanh a * tanh 1)
TanhNat(n) == IF n = 0 THEN 0
              ELSE IF n >= TanhSat THEN ZSCALE
              ELSE LET t == TanhNat(n - 1)
                   IN  Round((t + Tanh1) * ZSCALE, ZSCALE + ZMul(t, Tanh1))

\* Math.tanh: odd
Tanh(x) == IF x >= 0 THEN TanhNat(x) ELSE -TanhNat(-x)

\* f ** 0.3 for f near 1, binomial series in u = f - 1:
\*   1 + 0.3 u - 0.105 u^2 + 0.0595 u^3, summed in units of 1e-7
Pow03(f) == LET u  == f - ZSCALE
                t1 == 300 * u
                t2 == Round(105 * u * u, 10000)
                t3 == Round(595 * Round(u * u * u, 1000), 1000000)
            IN  ZSCALE + Round(t1 - t2 + t3, 1000)

Pi == 3142

TwoPi == 6283

HalfPi == 1571

\* sin x for 0 <= x <= pi/2 (units of 1/SCALE), Taylor series to x^7
SinQ(x) == LET x2 == Mul(x, x)
               x3 == Mul(x2, x)
               x5 == Mul(x3, x2)
               x7 == Mul(x5, x2)
           IN  x - Round(x3, 6) + Round(x5, 120) - Round(x7, 5040)

\* Math.sin, argument reduced to one turn
Sin(a) == LET r == a % TwoPi
          IN  IF r <= HalfPi THEN SinQ(r)
              ELSE IF r <= Pi THEN SinQ(Pi - r)
              ELSE IF r <= Pi + HalfPi THEN -SinQ(r - Pi)
              ELSE -SinQ(TwoPi - r)

\* Math.cos
Cos(a) == Sin(a + HalfPi)

-----------------------------------------------------------------------------
(* utils.js, and the copy in the standalone script *)

Max(a, b) == IF a >= b THEN a ELSE b

Min(a, b) == IF a <= b THEN a ELSE b

\* a wrong clamp, for comparison: Math.min and Math.max exchanged
clamp_swapped(x, lo, hi) == Min(lo, Max(hi, x))

clamp(x, lo, hi) == Max(lo, Min(hi, x))

-----------------------------------------------------------------------------
(* scene.js: the scene builder.  A scene is the sequence of the bodies     *)
(* added to it; a page's heap is the sequence of the Scene objects it has  *)
(* allocated, and a scene reference is an index into the heap.             *)
(* Lengths in units of 1/SCALE.                                            *)

Earth == [kind |-> "earth", radius |-> 6371, x |-> 0]

Clouds == [kind |-> "clouds", radius |-> 6371 + 20, x |-> 0]

Stars == [kind |-> "stars", radius |-> 1200000, x |-> 0]

Sun == [kind |-> "sun", radius |-> 2 * 696, x |-> 152000]

Light == [kind |-> "light", radius |-> 0, x |-> Sun.x]

createClouds(scene) == Append(scene, Clouds)

createEarth(scene) == createClouds(Append(scene, Earth))

createStarfield(scene) == Append(scene, Stars)

createLight(scene) == Append(scene, Light)

createSun(scene) == createLight(Append(scene, Sun))

\* createScene declares no parameter: whatever the caller passes is ignored.
\* It allocates a Scene, fills it, and returns the reference to it.
createScene(heap) ==
    LET scene == createSun(createStarfield(createEarth(<<>>)))
    IN  [heap |-> Append(heap, scene), ret |-> Len(heap) + 1]

\* new THREE.PerspectiveCamera(60, aspect, 0.1, 3000): at the origin
PerspectiveCamera == [position |-> <<0, 0, 0>>, lookAt |-> Undefined,
                      far |-> 3000 * SCALE]

-----------------------------------------------------------------------------
(* The standalone script *)

InitializeSteps_twoScenes == <<"camera", "WIDTH", "renderer",
                               "addEventListener mousemove", "addEventListener wheel",
                               "createScene", "createScene", "requestAnimationFrame">>

InitializeSteps == <<"camera", "WIDTH", "renderer", "addEventListener mousemove",
                     "addEventListener wheel", "createScene",
                     "requestAnimationFrame">>

\* a wrong initialize, for comparison: the scene is built twice
initialize_twoScenes(page, cv) ==
    LET first == createScene(page.heap)
        made == createScene(first.heap)
    IN  [page EXCEPT !.camera = PerspectiveCamera,
                     !.WIDTH = cv.clientWidth,
                     !.listeners = {"mousemove", "wheel"},
                     !.heap = made.heap,
                     !.scene = made.ret,
                     !.pending = page.pending + 1,
                     !.steps = InitializeSteps_twoScenes]

initialize(page, cv) ==
    LET made == createScene(page.heap)
    IN  [page EXCEPT !.camera = PerspectiveCamera,
                     !.WIDTH = cv.clientWidth,
                     !.listeners = {"mousemove", "wheel"},
                     !.heap = made.heap,
                     !.scene = made.ret,
                     !.pending = page.pending + 1,
                     !.steps = InitializeSteps]

handleMouseMove(page, event, rect) ==
    LET offsetX == rect.left
        x == Round((event.clientX - offsetX) * SCALE, page.WIDTH)
    IN  [page EXCEPT !.target_angle_v = Round(25 * (2 * x - SCALE), 10)]

\* a wrong handleWheel, for comparison: the upper bound of zoom is not applied
handleWheel_noUpperBound(page, event) ==
    LET factor == ZSCALE + Round(Tanh(event.deltaY), 10)
        zoom == ZMul(page.zoom, Pow03(factor))
    IN  [page EXCEPT !.zoom = Max(4300, zoom),
                     !.factor = <<factor>>]

\* a wrong handleWheel, for comparison: factor * 0.3 written for factor ** 0.3
handleWheel_times(page, event) ==
    LET factor == ZSCALE + Round(Tanh(event.deltaY), 10)
        zoom == ZMul(page.zoom, Round(3 * factor, 10))
    IN  [page EXCEPT !.zoom = clamp(zoom, 4300, 30000),
                     !.factor = <<factor>>]

handleWheel(page, event) ==
    LET factor == ZSCALE + Round(Tanh(event.deltaY), 10)
        zoom == ZMul(page.zoom, Pow03(factor))
    IN  [page EXCEPT !.zoom = clamp(zoom, 4300, 30000),
                     !.factor = <<factor>>]

AnimateSteps_twoRequests == <<"requestAnimationFrame", "integrate", "camera.position",
                              "camera.lookAt", "render", "requestAnimationFrame",
                              "prevTime">>

AnimateSteps == <<"integrate", "camera.position", "camera.lookAt", "render",
                  "requestAnimationFrame", "prevTime">>

\* a wrong animate, for comparison: the next frame is requested on entry and
\* again after the render
animate_twoRequests(page, ms) ==
    LET time == ms
        dt == time - page.prevTime
        d_angle_v == Mul(30 * dt, page.target_angle_v - page.angle_v)
        angle_v == clamp(page.angle_v + Mul(dt, d_angle_v), -2500, 2500)
        angle == page.angle + Mul(dt, angle_v)
        radius == 16 * page.zoom
        position == <<Round(radius * Cos(angle), SCALE),
                      page.camera.position[2],
                      Round(radius * Sin(angle), SCALE)>>
    IN  [page EXCEPT !.angle_v = angle_v,
                     !.angle = angle,
                     !.camera = [page.camera EXCEPT !.position = position,
                                                    !.lookAt = <<0, 0, 0>>],
                     !.rendered = [scene |-> page.heap[page.scene],
                                   camera |-> position],
                     !.renders = page.renders + 1,
                     !.pending = page.pending + 2,
                     !.prevTime = time,
                     !.dt = <<dt>>,
                     !.steps = AnimateSteps_twoRequests]

\* a wrong animate, for comparison: the camera is placed with the angle from
\* before the integration step
animate_staleAngle(page, ms) ==
    LET time == ms
        dt == time - page.prevTime
        d_angle_v == Mul(30 * dt, page.target_angle_v - page.angle_v)
        angle_v == clamp(page.angle_v + Mul(dt, d_angle_v), -2500, 2500)
        angle == page.angle + Mul(dt, angle_v)
        radius == 16 * page.zoom
        position == <<Round(radius * Cos(page.angle), SCALE),
                      page.camera.position[2],
                      Round(radius * Sin(page.angle), SCALE)>>
    IN  [page EXCEPT !.angle_v = angle_v,
                     !.angle = angle,
                     !.camera = [page.camera EXCEPT !.position = position,
                                                    !.lookAt = <<0, 0, 0>>],
                     !.rendered = [scene |-> page.heap[page.scene],
                                   camera |-> position],
                     !.renders = page.renders + 1,
                     !.pending = page.pending + 1,
                     !.prevTime = time,
                     !.dt = <<dt>>,
                     !.steps = AnimateSteps]

animate(page, ms) ==
    LET time == ms      \* time *= 1e-3: milliseconds are the units of 1/SCALE s
        dt == time - page.prevTime
        d_angle_v == Mul(30 * dt, page.target_angle_v - page.angle_v)
        angle_v == clamp(page.angle_v + Mul(dt, d_angle_v), -2500, 2500)
        angle == page.angle + Mul(dt, angle_v)
        radius == 16 * page.zoom
        position == <<Round(radius * Cos(angle), SCALE),
                      page.camera.position[2],
                      Round(radius * Sin(angle), SCALE)>>
    IN  [page EXCEPT !.angle_v = angle_v,
                     !.angle = angle,
                     !.camera = [page.camera EXCEPT !.position = position,
                                                    !.lookAt = <<0, 0, 0>>],
                     !.rendered = [scene |-> page.heap[page.scene],
                                   camera |-> position],
                     !.renders = page.renders + 1,
                     !.pending = page.pending + 1,
                     !.prevTime = time,
                     !.dt = <<dt>>,
                     !.steps = AnimateSteps]

-----------------------------------------------------------------------------
(* class Game *)

\* a wrong Game constructor, for comparison: the target starts at 2.5
Game_constructor_spinning(heap, scene) ==
    [game |-> [angle_v |-> 0, target_angle_v |-> 2500, angle |-> 0, zoom |-> ZSCALE,
               factor |-> <<>>],
     heap |-> createScene(heap).heap]

Game_constructor(heap, scene) ==
    [game |-> [angle_v |-> 0, target_angle_v |-> 0, angle |-> 0, zoom |-> ZSCALE,
               factor |-> <<>>],
     heap |-> createScene(heap).heap]

\* a wrong Game.handleMouseMove, for comparison: the target is taken from y
Game_handleMouseMove_usesY(game, x, y) ==
    [game EXCEPT !.target_angle_v = Round(25 * (2 * y - SCALE), 10)]

\* a wrong Game.handleMouseMove, for comparison: the pointer also stops the camera
Game_handleMouseMove_stops(game, x, y) ==
    [game EXCEPT !.target_angle_v = Round(25 * (2 * x - SCALE), 10),
                 !.angle_v = 0]

Game_handleMouseMove(game, x, y) ==
    [game EXCEPT !.target_angle_v = Round(25 * (2 * x - SCALE), 10)]

\* a wrong Game.handleWheel, for comparison: the exponent 0.3 is left out
Game_handleWheel_noExponent(game, deltaY) ==
    LET factor == ZSCALE + Round(Tanh(deltaY), 10)
        zoom == ZMul(game.zoom, factor)
    IN  [game EXCEPT !.zoom = clamp(zoom, 4300, 30000),
                     !.factor = <<factor>>]

Game_handleWheel(game, deltaY) ==
    LET factor == ZSCALE + Round(Tanh(deltaY), 10)
        zoom == ZMul(game.zoom, Pow03(factor))
    IN  [game EXCEPT !.zoom = clamp(zoom, 4300, 30000),
                     !.factor = <<factor>>]

\* a wrong Game.animate, for comparison: the angle is advanced by the
\* timestamp instead of the elapsed time
Game_animate_absoluteTime(game, time, dt) ==
    LET d_angle_v == Mul(30 * dt, game.target_angle_v - game.angle_v)
        angle_v == clamp(game.angle_v + Mul(dt, d_angle_v), -2500, 2500)
    IN  [game EXCEPT !.angle_v = angle_v,
                     !.angle = game.angle + Mul(time, angle_v)]

Game_animate(game, time, dt) ==
    LET d_angle_v == Mul(30 * dt, game.target_angle_v - game.angle_v)
        angle_v == clamp(game.angle_v + Mul(dt, d_angle_v), -2500, 2500)
    IN  [game EXCEPT !.angle_v = angle_v,
                     !.angle = game.angle + Mul(dt, angle_v)]

-----------------------------------------------------------------------------
(* The game driver *)

game_InitializeSteps == <<"prevTime", "WIDTH", "HEIGHT", "camera", "renderer",
                          "addEventListener mousemove", "addEventListener wheel",
                          "Scene", "createScene", "requestAnimationFrame">>

game_initialize(page, cv) ==
    LET scene == Len(page.heap) + 1      \* new THREE.Scene()
        heap == Append(page.heap, <<>>)
        made == Game_constructor(heap, scene)
    IN  [page EXCEPT !.prevTime = 0,
                     !.WIDTH = cv.clientWidth,
                     !.HEIGHT = cv.clientHeight,
                     !.camera = PerspectiveCamera,
                     !.listeners = {"mousemove", "wheel"},
                     !.scene = scene,
                     !.heap = made.heap,
                     !.game = made.game,
                     !.pending = page.pending + 1,
                     !.steps = game_InitializeSteps]

\* a wrong handleMouseMove of the game driver, for comparison: x is taken
\* relative to the height
game_handleMouseMove_byHeight(page, event, rect) ==
    LET offsetX == rect.left
        offsetY == rect.left
        x == Round((event.clientX - offsetX) * SCALE, page.HEIGHT)
        y == Round((event.clientY - offsetY) * SCALE, page.HEIGHT)
    IN  [page EXCEPT !.game = Game_handleMouseMove(page.game, x, y)]

game_handleMouseMove(page, event, rect) ==
    LET offsetX == rect.left
        offsetY == rect.left
        x == Round((event.clientX - offsetX) * SCALE, page.WIDTH)
        y == Round((event.clientY - offsetY) * SCALE, page.HEIGHT)
    IN  [page EXCEPT !.game = Game_handleMouseMove(page.game, x, y)]

game_handleWheel(page, event) ==
    [page EXCEPT !.game = Game_handleWheel(page.game, event.deltaY)]

\* a wrong animate of the game driver, for comparison: orbit radius 6 * zoom
game_animate_radius6(page, ms) ==
    LET time == ms
        dt == time - page.prevTime
        game == Game_animate(page.game, time, dt)
        radius == 6 * game.zoom
        position == <<Round(radius * Cos(game.angle), SCALE),
                      page.camera.position[2],
                      Round(radius * Sin(game.angle), SCALE)>>
    IN  [page EXCEPT !.game = game,
                     !.camera = [page.camera EXCEPT !.position = position,
                                                    !.lookAt = <<0, 0, 0>>],
                     !.rendered = [scene |-> page.heap[page.scene],
                                   camera |-> position],
                     !.renders = page.renders + 1,
                     !.pending = page.pending + 1,
                     !.prevTime = time,
                     !.dt = <<dt>>,
                     !.steps = AnimateSteps]

\* a wrong animate of the game driver, for comparison: prevTime is not stored
game_animate_keepPrevTime(page, ms) ==
    LET time == ms
        dt == time - page.prevTime
        game == Game_animate(page.game, time, dt)
        radius == 16 * game.zoom
        position == <<Round(radius * Cos(game.angle), SCALE),
                      page.camera.position[2],
                      Round(radius * Sin(game.angle), SCALE)>>
    IN  [page EXCEPT !.game = game,
                     !.camera = [page.camera EXCEPT !.position = position,
                                                    !.lookAt = <<0, 0, 0>>],
                     !.rendered = [scene |-> page.heap[page.scene],
                                   camera |-> position],
                     !.renders = page.renders + 1,
                     !.pending = page.pending + 1,
                     !.dt = <<dt>>,
                     !.steps = AnimateSteps]

\* a wrong animate of the game driver, for comparison: the next frame is not
\* requested
game_animate_noRequest(page, ms) ==
    LET time == ms
        dt == time - page.prevTime
        game == Game_animate(page.game, time, dt)
        radius == 16 * game.zoom
        position == <<Round(radius * Cos(game.angle), SCALE),
                      page.camera.position[2],
                      Round(radius * Sin(game.angle), SCALE)>>
    IN  [page EXCEPT !.game = game,
                     !.camera = [page.camera EXCEPT !.position = position,
                                                    !.lookAt = <<0, 0, 0>>],
                     !.rendered = [scene |-> page.heap[page.scene],
                                   camera |-> position],
                     !.renders = page.renders + 1,
                     !.prevTime = time,
                     !.dt = <<dt>>,
                     !.steps = AnimateSteps]

game_animate(page, ms) ==
    LET time == ms
        dt == time - page.prevTime
        game == Game_animate(page.game, time, dt)
        radius == 16 * game.zoom
        position == <<Round(radius * Cos(game.angle), SCALE),
                      page.camera.position[2],
                      Round(radius * Sin(game.angle), SCALE)>>
    IN  [page EXCEPT !.game = game,
                     !.camera = [page.camera EXCEPT !.position = position,
                                                    !.lookAt = <<0, 0, 0>>],
                     !.rendered = [scene |-> page.heap[page.scene],
                                   camera |-> position],
                     !.renders = page.renders + 1,
                     !.pending = page.pending + 1,
                     !.prevTime = time,
                     !.dt = <<dt>>,
                     !.steps = AnimateSteps]

-----------------------------------------------------------------------------
(* Initial state: both modules evaluated, window.onload not yet fired.     *)
(* dt and factor hold the value the local of that name took in the last    *)
(* animate and handleWheel call (empty before the first call); steps holds *)
(* the statements of the last initialize or animate call that act on the   *)
(* host or on the shared state, in the order of the code; renders counts   *)
(* the calls of renderer.render.                                           *)

EarthModule == [WIDTH |-> Undefined, prevTime |-> 0, angle_v |-> 0,
                target_angle_v |-> 0, angle |-> 0, zoom |-> ZSCALE,
                camera |-> Undefined, scene |-> Undefined, heap |-> <<>>,
                listeners |-> {}, pending |-> 0, rendered |-> Undefined,
                dt |-> <<>>, factor |-> <<>>, steps |-> <<>>, renders |-> 0]

GameModule == [WIDTH |-> Undefined, HEIGHT |-> Undefined, prevTime |-> Undefined,
               game |-> Undefined,
               camera |-> Undefined, scene |-> Undefined, heap |-> <<>>,
               listeners |-> {}, pending |-> 0, rendered |-> Undefined,
               dt |-> <<>>, steps |-> <<>>, renders |-> 0]

NoCall == [x |-> 0, lo |-> 0, hi |-> 0, ret |-> <<>>]

Init == /\ pc = "loading"
        /\ now = 0
        /\ earthPage = EarthModule
        /\ gamePage = GameModule
        /\ frames = 0
        /\ wheels = 0
        /\ call = NoCall
        /\ pointer = <<>>

-----------------------------------------------------------------------------
(* Host events *)

\* window.onload
Load == /\ pc = "loading"
        /\ pc' = "running"
        /\ earthPage' = initialize(earthPage, Loaded)
        /\ gamePage' = game_initialize(gamePage, Loaded)
        /\ UNCHANGED <<now, frames, wheels, call, pointer>>

\* one mousemove event is dispatched to both pages
MouseMoveEvent(rect, clientX, clientY) ==
    LET event == [clientX |-> clientX, clientY |-> clientY]
    IN  /\ pc = "running"
        /\ "mousemove" \in earthPage.listeners
        /\ "mousemove" \in gamePage.listeners
        /\ earthPage' = handleMouseMove(earthPage, event, rect)
        /\ gamePage' = game_handleMouseMove(gamePage, event, rect)
        /\ UNCHANGED <<pc, now, frames, wheels, call>>

\* a mousemove event over the canvas, which occupies rect at that moment
MouseMove(rect, clientX, clientY) ==
    /\ MouseMoveEvent(rect, clientX, clientY)
    /\ UNCHANGED pointer

\* the same, the event's vertical part kept: clientY and the y the game driver
\* computes from it, (clientY - rect.left) / HEIGHT
PointerMove(rect, clientX, clientY) ==
    /\ MouseMoveEvent(rect, clientX, clientY)
    /\ pointer' = <<[clientY |-> clientY,
                     y |-> Round((clientY - rect.left) * SCALE, gamePage.HEIGHT)]>>

\* one wheel event is dispatched to both pages
WheelEvent(deltaY) ==
    LET event == [deltaY |-> deltaY]
    IN  /\ pc = "running"
        /\ "wheel" \in earthPage.listeners
        /\ "wheel" \in gamePage.listeners
        /\ earthPage' = handleWheel(earthPage, event)
        /\ gamePage' = game_handleWheel(gamePage, event)
        /\ UNCHANGED <<pc, now, frames, call, pointer>>

RECURSIVE Repeat(_, _, _, _)
\* the page after n wheel events with the same delta, handled one after the other
Repeat(handler(_, _), page, event, n) ==
    IF n = 0 THEN page ELSE Repeat(handler, handler(page, event), event, n - 1)

\* a fast scroll: BurstLen wheel events with the same delta are dispatched back
\* to back, before any other event
WheelBurstEvents(deltaY) ==
    LET event == [deltaY |-> deltaY]
    IN  /\ pc = "running"
        /\ "wheel" \in earthPage.listeners
        /\ "wheel" \in gamePage.listeners
        /\ earthPage' = Repeat(handleWheel, earthPage, event, BurstLen)
        /\ gamePage' = Repeat(game_handleWheel, gamePage, event, BurstLen)
        /\ UNCHANGED <<pc, now, frames, call, pointer>>

Wheel(deltaY) ==
    /\ deltaY = 0 \/ wheels < MaxWheel
    /\ WheelEvent(deltaY)
    /\ wheels' = IF deltaY = 0 THEN wheels ELSE wheels + 1

WheelBurst(deltaY) ==
    /\ wheels < MaxWheel
    /\ WheelBurstEvents(deltaY)
    /\ wheels' = wheels + 1

\* the display refresh fires the pending frame callback with timestamp now + d
Frame(d) ==
    LET time == now + d
    IN  /\ pc = "running"
        /\ frames < MaxFrames
        /\ earthPage.pending > 0
        /\ gamePage.pending > 0
        /\ earthPage' = animate([earthPage EXCEPT !.pending = @ - 1], time)
        /\ gamePage' = game_animate([gamePage EXCEPT !.pending = @ - 1], time)
        /\ now' = time
        /\ frames' = frames + 1
        /\ UNCHANGED <<pc, wheels, call, pointer>>

Next == \/ Load
        \/ \E rect \in Rects : \E clientX \in ClientXs(rect), clientY \in ClientYs(rect) :
              MouseMove(rect, clientX, clientY)
        \/ \E deltaY \in DeltaYs : Wheel(deltaY)
        \/ \E deltaY \in BurstDeltaYs : WheelBurst(deltaY)
        \/ \E d \in Dts : Frame(d)

Spec == Init /\ [][Next]_vars

-----------------------------------------------------------------------------
(* Single events only: pointer, wheel and frame events as before, without *)
(* the runs of wheel events.                                               *)

EventNext ==
    \/ Load
    \/ \E rect \in Rects : \E clientX \in ClientXs(rect), clientY \in ClientYs(rect) :
          MouseMove(rect, clientX, clientY)
    \/ \E deltaY \in DeltaYs : Wheel(deltaY)
    \/ \E d \in Dts : Frame(d)

SpecEvents == Init /\ [][EventNext]_vars

-----------------------------------------------------------------------------
(* Single events, the pointer's vertical coordinate kept *)

PointerNext ==
    \/ Load
    \/ \E rect \in Rects : \E clientX \in ClientXs(rect), clientY \in ClientYs(rect) :
          PointerMove(rect, clientX, clientY)
    \/ \E deltaY \in DeltaYs : Wheel(deltaY)
    \/ \E d \in Dts : Frame(d)

SpecPointer == Init /\ [][PointerNext]_vars

-----------------------------------------------------------------------------
(* The frame loop under a display that fires every callback requested of it *)

\* the frame callback can fire: the enabling condition of Frame
FrameDue(n) ==
    /\ pc = "running"
    /\ frames = n
    /\ earthPage.pending > 0
    /\ gamePage.pending > 0

\* Weak fairness of the frame callback, WF_vars(\E d \in Dts : Frame(d)), written
\* with the enabling condition of Frame: frames changes in Frame steps only, so
\* a callback that stays due was not fired.
DisplayFires == \A n \in 0 .. MaxFrames - 1 : []<>~FrameDue(n)

SpecLive == Init /\ [][EventNext]_vars /\ WF_pc(Load) /\ DisplayFires

-----------------------------------------------------------------------------
(* The wheel on its own: the page is loaded and only scrolled *)

Scroll(deltaY) ==
    /\ wheels < MaxScroll
    /\ WheelEvent(deltaY)
    /\ wheels' = wheels + 1

ScrollBurst(deltaY) ==
    /\ wheels < MaxScroll
    /\ WheelBurstEvents(deltaY)
    /\ wheels' = wheels + 1

WheelNext == \/ Load
             \/ \E deltaY \in ScrollDeltaYs : Scroll(deltaY)
             \/ \E deltaY \in BurstDeltaYs : ScrollBurst(deltaY)

SpecWheel == Init /\ [][WheelNext]_vars

-----------------------------------------------------------------------------
(* The clamp helper on its own *)

ClampArgs == (-MaxClampArg .. MaxClampArg) \cup {-2500, 2500, 4300, 30000}

ClampInit == /\ pc = "loading"
                  /\ now = 0
             /\ earthPage = EarthModule
             /\ gamePage = GameModule
                  /\ frames = 0
             /\ wheels = 0
                  /\ call \in [x : ClampArgs, lo : ClampArgs, hi : ClampArgs, ret : {<<>>}]
             /\ pointer = <<>>

ClampCall == /\ call.ret = <<>>
             /\ call' = [call EXCEPT !.ret = <<clamp(call.x, call.lo, call.hi)>>]
             /\ UNCHANGED <<pc, now, earthPage, gamePage, frames,
                            wheels, pointer>>

ClampNext == ClampCall

SpecClamp == ClampInit /\ [][ClampNext]_vars

-----------------------------------------------------------------------------
(* Views of the two orbit states *)

EarthOrbit == [angle |-> earthPage.angle, angle_v |-> earthPage.angle_v,
               target_angle_v |-> earthPage.target_angle_v, zoom |-> earthPage.zoom]

GameOrbit == [angle |-> gamePage.game.angle, angle_v |-> gamePage.game.angle_v,
              target_angle_v |-> gamePage.game.target_angle_v,
              zoom |-> gamePage.game.zoom]

\* the orbit states that exist: the Game object is constructed by initialize
Orbits == IF pc = "running" THEN {EarthOrbit, GameOrbit} ELSE {EarthOrbit}

-----------------------------------------------------------------------------
(* C1 *)

\* C1: in every reachable state, of the standalone script and of the Game
\* object alike, angularVelocity is in [-2.5, 2.5] and zoom is in [0.43, 3].
C1_VelocityAndZoomBounded ==
    \A o \in Orbits : /\ o.angle_v \in -2500 .. 2500
                      /\ o.zoom \in 4300 .. 30000

\* a fast scroll has run zoom into its upper bound and a frame has run the
\* velocity into its upper bound, in both pages
C1_BothClampsEngaged ==
    /\ pc = "running"
    /\ frames > 0
    /\ wheels > 0
    /\ EarthOrbit.zoom = 30000 /\ EarthOrbit.angle_v = 2500
    /\ GameOrbit.zoom = 30000 /\ GameOrbit.angle_v = 2500

-----------------------------------------------------------------------------
(* C2 *)

\* the frame update as the claim states it: accel = 30 (target - v),
\* v' = clamp(v + dt accel), angle' = angle + dt v'
ClaimedFrame(o, dt) ==
    LET accel == 30 * (o.target_angle_v - o.angle_v)
        v == clamp(o.angle_v + Mul(dt, accel), -2500, 2500)
    IN  [o EXCEPT !.angle_v = v, !.angle = o.angle + Mul(dt, v)]

\* C2: one frame update with elapsed time dt sets
\* angularVelocity' = clamp(angularVelocity + dt*30*(target - angularVelocity), -2.5, 2.5)
\* and angle' = angle + dt*angularVelocity'; from {0, 0, 2.5, 1} with dt = 0.1
\* this gives angularVelocity = 2.5 and angle = 0.25.
C2_FrameUpdateAsClaimed ==
    [][\A d \in Dts : Frame(d) =>
          /\ EarthOrbit' = ClaimedFrame(EarthOrbit, now + d - earthPage.prevTime)
          /\ GameOrbit' = ClaimedFrame(GameOrbit, now + d - gamePage.prevTime)]_vars

-----------------------------------------------------------------------------
(* C3 *)

\* C3: targetAngularVelocity is in [-2.5, 2.5] in every reachable state,
\* whatever pointer-move events the host has delivered.
C3_TargetBounded ==
    \A o \in Orbits : o.target_angle_v \in -2500 .. 2500

-----------------------------------------------------------------------------
(* C4 *)

\* what the claim says of one wheel event with delta d that takes zoom z to z2
\* and leaves f as the factor: the update law, the range of the factor, and the
\* bound on z2 / z (0.9^0.3 and 1.1^0.3 to four places, half a unit of rounding)
WheelLaw(d, z, z2, f) ==
    /\ f = <<ZSCALE + Round(Tanh(d), 10)>>
    /\ f[1] \in 9000 .. 11000
    /\ z2 = clamp(ZMul(z, Pow03(f[1])), 4300, 30000)
    /\ z2 * ZSCALE >= z * 9688 - ZSCALE \div 2
    /\ z2 * ZSCALE <= z * 10291 + ZSCALE \div 2

\* C4, as claimed: a wheel event sets zoom' = clamp(zoom * (1 + 0.1 tanh(deltaY))^0.3, 0.43, 3),
\* the factor lies in [0.9, 1.1], zoom'/zoom lies between 0.9^0.3 and 1.1^0.3,
\* and deltaY = 10 on zoom = 1 gives about 1.0296, unclamped.
C4_WheelStepAsClaimed ==
    [][\A d \in ScrollDeltaYs : WheelEvent(d) =>
          /\ WheelLaw(d, EarthOrbit.zoom, EarthOrbit'.zoom, earthPage'.factor)
          /\ WheelLaw(d, GameOrbit.zoom, GameOrbit'.zoom, gamePage'.game.factor)
          /\ d = 10 /\ EarthOrbit.zoom = ZSCALE /\ GameOrbit.zoom = ZSCALE =>
                /\ Abs(EarthOrbit'.zoom - 10296) <= 5
                /\ Abs(GameOrbit'.zoom - 10296) <= 5
                /\ EarthOrbit'.zoom < 30000 /\ GameOrbit'.zoom < 30000]_vars

\* C4, amended: the same, and deltaY = 10 on zoom = 1 gives about 1.0290, unclamped.
C4_WheelStep ==
    [][\A d \in ScrollDeltaYs : WheelEvent(d) =>
          /\ WheelLaw(d, EarthOrbit.zoom, EarthOrbit'.zoom, earthPage'.factor)
          /\ WheelLaw(d, GameOrbit.zoom, GameOrbit'.zoom, gamePage'.game.factor)
          /\ d = 10 /\ EarthOrbit.zoom = ZSCALE /\ GameOrbit.zoom = ZSCALE =>
                /\ Abs(EarthOrbit'.zoom - 10290) <= 1
                /\ Abs(GameOrbit'.zoom - 10290) <= 1
                /\ EarthOrbit'.zoom < 30000 /\ GameOrbit'.zoom < 30000]_vars

\* one wheel event with deltaY = 10 has acted on zoom = 1
C4_WheelTenFromOne ==
    /\ pc = "running"
    /\ wheels = 1
    /\ earthPage.factor = <<ZSCALE + Round(Tanh(10), 10)>>
    /\ gamePage.game.factor = earthPage.factor
    /\ EarthOrbit.zoom = 10290
    /\ GameOrbit.zoom = 10290

-----------------------------------------------------------------------------
(* C5 *)

\* C5: for lo <= hi, clamp(x, lo, hi) is in [lo, hi], is x when x is in range,
\* lo when x < lo and hi when x > hi; the call changes nothing else.
C5_ClampContract ==
    [][ClampCall =>
          /\ call.lo <= call.hi =>
                /\ call'.ret[1] \in call.lo .. call.hi
                /\ call.x \in call.lo .. call.hi => call'.ret[1] = call.x
                /\ call.x < call.lo => call'.ret[1] = call.lo
                /\ call.x > call.hi => call'.ret[1] = call.hi
          /\ call' = [call EXCEPT !.ret = call'.ret]
          /\ Len(call'.ret) = 1
          /\ UNCHANGED <<pc, now, earthPage, gamePage, frames, wheels, pointer>>]_vars

\* clamp has returned the upper bound for an argument above a proper range
C5_ClampedFromAbove ==
    /\ call.lo < call.hi
    /\ call.x > call.hi
    /\ call.ret = <<call.hi>>

-----------------------------------------------------------------------------
(* C6 *)

\* C6: a frame update whose dt is 0 leaves angle and angularVelocity unchanged.
C6_ZeroDtFrame ==
    [][frames' = frames + 1 =>
          /\ earthPage'.dt = <<0>> =>
                /\ EarthOrbit'.angle = EarthOrbit.angle
                /\ EarthOrbit'.angle_v = EarthOrbit.angle_v
          /\ gamePage'.dt = <<0>> =>
                /\ GameOrbit'.angle = GameOrbit.angle
                /\ GameOrbit'.angle_v = GameOrbit.angle_v]_vars

\* the second frame had dt = 0 while the camera was turning towards a target
\* it had not reached
C6_ZeroDtWhileTurning ==
    /\ frames = 2
    /\ now > 0
    /\ earthPage.dt = <<0>> /\ gamePage.dt = <<0>>
    /\ EarthOrbit.angle_v # 0 /\ EarthOrbit.angle_v # EarthOrbit.target_angle_v
    /\ GameOrbit.angle_v # 0 /\ GameOrbit.angle_v # GameOrbit.target_angle_v

-----------------------------------------------------------------------------
(* C7 *)

\* C7: a wheel event with deltaY = 0 has factor exactly 1 and leaves zoom, and
\* with it the whole orbit state, unchanged.
C7_ZeroWheelNeutral ==
    [][WheelEvent(0) =>
          /\ earthPage'.factor = <<ZSCALE>>
          /\ gamePage'.game.factor = <<ZSCALE>>
          /\ EarthOrbit' = EarthOrbit
          /\ GameOrbit' = GameOrbit]_vars

\* a wheel event with deltaY = 0 was the last one handled, with zoom at its
\* upper bound and the camera turning
C7_ZeroWheelAtBound ==
    /\ pc = "running"
    /\ earthPage.factor = <<ZSCALE>>
    /\ gamePage.game.factor = <<ZSCALE>>
    /\ EarthOrbit.zoom = 30000 /\ GameOrbit.zoom = 30000
    /\ EarthOrbit.angle_v # 0 /\ GameOrbit.angle_v # 0

-----------------------------------------------------------------------------
(* C8 *)

\* what the claim says of a pointer event at offset rel from the left edge: 0
\* at the centre of the width, the end values at and beyond the edges
ClaimedEnds(target, rel, width) ==
    /\ 2 * rel = width => target = 0
    /\ rel >= width => target = 2500
    /\ rel <= 0 => target = -2500

\* C8: the pointer mapping is monotone in the horizontal coordinate, 0 at the
\* centre, and clamped at -2.5 and 2.5 at and beyond the edges.
C8_PointerMapAsClaimed ==
    [][\A rect \in Rects : \A clientX \in ClientXs(rect), clientY \in ClientYs(rect) :
          MouseMove(rect, clientX, clientY) =>
             /\ ClaimedEnds(EarthOrbit'.target_angle_v, clientX - rect.left, earthPage.WIDTH)
             /\ ClaimedEnds(GameOrbit'.target_angle_v, clientX - rect.left, gamePage.WIDTH)
             /\ \A x2 \in ClientXs(rect) : clientX <= x2 =>
                   LET event == [clientX |-> x2, clientY |-> clientY]
                   IN  /\ EarthOrbit'.target_angle_v <=
                            handleMouseMove(earthPage, event, rect).target_angle_v
                       /\ GameOrbit'.target_angle_v <=
                            game_handleMouseMove(gamePage, event, rect).game.target_angle_v]_vars

-----------------------------------------------------------------------------
(* C9 *)

\* the camera at pos, placed for the given angle and zoom: on the horizontal
\* circle of radius 16 zoom, hence outside the planet and its clouds, inside
\* the starfield, and with every body nearer than the far clip distance.
\* Distances are compared in units of 1e-2; tol covers the resolution of
\* sine and cosine (1e-3 of the radius each) and the rounding of the
\* coordinates.
CameraPlaced(pos, angle, zoom, far) ==
    LET radius == 16 * zoom
        rc == Round(radius, 100)
        tol == rc \div 500 + 2
        xc == Round(pos[1], 100)
        zc == Round(pos[3], 100)
        d2 == xc * xc + zc * zc
        reach == Abs(pos[1]) + Abs(pos[3])
    IN  /\ pos = <<Round(radius * Cos(angle), SCALE), 0, Round(radius * Sin(angle), SCALE)>>
        /\ rc \in 688 .. 4800
        /\ d2 >= (rc - tol) * (rc - tol)
        /\ d2 <= (rc + tol) * (rc + tol)
        /\ \A body \in {Earth, Clouds} :
              d2 > (Round(body.radius, 10) + tol) * (Round(body.radius, 10) + tol)
        /\ reach < 10 * Stars.radius
        /\ \A body \in {Earth, Clouds, Stars, Sun, Light} :
              reach + 10 * (body.x + body.radius) < 10 * far

\* C9: in every rendered frame the camera is on the horizontal circle of radius
\* 16 * zoom for the angle and zoom of that frame, so its distance from the
\* origin is in [6.88, 48]: inside the starfield, outside the planet and the
\* clouds, and the scene within the far clip distance.
C9_CameraOnCircle ==
    [][frames' = frames + 1 =>
          /\ earthPage'.rendered.camera = earthPage'.camera.position
          /\ gamePage'.rendered.camera = gamePage'.camera.position
          /\ CameraPlaced(earthPage'.rendered.camera, EarthOrbit'.angle,
                          EarthOrbit'.zoom, earthPage'.camera.far)
          /\ CameraPlaced(gamePage'.rendered.camera, GameOrbit'.angle,
                          GameOrbit'.zoom, gamePage'.camera.far)]_vars

\* a frame was rendered with the camera as near as zoom allows and turned away
\* from its initial direction
C9_NearestTurned ==
    /\ frames > 0
    /\ EarthOrbit.zoom = 4300 /\ GameOrbit.zoom = 4300
    /\ EarthOrbit.angle # 0 /\ GameOrbit.angle # 0
    /\ earthPage.rendered.camera[3] # 0 /\ gamePage.rendered.camera[3] # 0
    /\ earthPage.rendered.camera =
          <<Round(16 * 4300 * Cos(EarthOrbit.angle), SCALE), 0,
            Round(16 * 4300 * Sin(EarthOrbit.angle), SCALE)>>
    /\ gamePage.rendered.camera = earthPage.rendered.camera

-----------------------------------------------------------------------------
(* C10 *)

Kinds == {"earth", "clouds", "stars", "sun", "light"}

\* each of the five bodies is in the scene exactly once
HoldsBodiesOnce(scene) ==
    /\ Len(scene) = Cardinality(Kinds)
    /\ \A k \in Kinds : Cardinality({i \in DOMAIN scene : scene[i].kind = k}) = 1

\* C10: in both pages the scene the driver holds, which is the one the render
\* loop passes to the renderer, contains the five bodies exactly once each.
C10_RenderedSceneHasBodies ==
    pc = "running" =>
       /\ HoldsBodiesOnce(earthPage.heap[earthPage.scene])
       /\ HoldsBodiesOnce(gamePage.heap[gamePage.scene])
       /\ frames > 0 => /\ earthPage.rendered.scene = earthPage.heap[earthPage.scene]
                        /\ gamePage.rendered.scene = gamePage.heap[gamePage.scene]

-----------------------------------------------------------------------------
(* Order of the statements of a call *)

Count(steps, step) == Cardinality({i \in DOMAIN steps : steps[i] = step})

Before(steps, a, b) == \E i, j \in DOMAIN steps : i < j /\ steps[i] = a /\ steps[j] = b

-----------------------------------------------------------------------------
(* C11 *)

\* C11: the first frame callback after initialization integrates with dt = 0,
\* so it leaves angle and angularVelocity as they were, whatever its timestamp
\* and whatever target the pointer has set before it.
C11_FirstFrameAtRest ==
    [][frames = 0 /\ frames' = 1 =>
          /\ earthPage'.dt = <<0>> /\ gamePage'.dt = <<0>>
          /\ EarthOrbit'.angle = EarthOrbit.angle
          /\ EarthOrbit'.angle_v = EarthOrbit.angle_v
          /\ GameOrbit'.angle = GameOrbit.angle
          /\ GameOrbit'.angle_v = GameOrbit.angle_v]_vars

-----------------------------------------------------------------------------
(* C12 *)

\* C12: when a frame callback after the first starts, prevTime is the timestamp
\* of the last completed callback, so the dt it integrates with is its own
\* timestamp minus that one and is not negative; prevTime is written after the
\* next frame has been requested.
C12_DtIsTimestampDelta ==
    [][\A d \in Dts : Frame(d) /\ frames >= 1 =>
          /\ earthPage.prevTime = now /\ gamePage.prevTime = now
          /\ earthPage'.dt = <<(now + d) - now>> /\ gamePage'.dt = earthPage'.dt
          /\ earthPage'.dt[1] >= 0
          /\ earthPage'.prevTime = now + d /\ gamePage'.prevTime = now + d
          /\ Before(earthPage'.steps, "requestAnimationFrame", "prevTime")
          /\ Before(gamePage'.steps, "requestAnimationFrame", "prevTime")]_vars

\* the second frame came 0.1 s after the first, which came at 1 s
C12_SecondFrameAfterTenth ==
    /\ frames = 2
    /\ now = 1100
    /\ earthPage.prevTime = 1100 /\ gamePage.prevTime = 1100
    /\ earthPage.dt = <<100>> /\ gamePage.dt = <<100>>

-----------------------------------------------------------------------------
(* C13 *)

\* one integration, one render, one request, in that order
OneOfEachInOrder(steps) ==
    /\ Count(steps, "integrate") = 1
    /\ Count(steps, "render") = 1
    /\ Count(steps, "requestAnimationFrame") = 1
    /\ Before(steps, "integrate", "render")
    /\ Before(steps, "render", "requestAnimationFrame")

\* C13: every frame callback does one integration step, one render call and
\* one request for the next frame, in that order; so at most one callback is
\* pending at any time and the renders are as many as the callbacks executed.
C13_OneRenderOneRequest ==
    /\ [](pc = "running" =>
            /\ earthPage.pending <= 1 /\ gamePage.pending <= 1
            /\ earthPage.renders = frames /\ gamePage.renders = frames)
    /\ [][\A d \in Dts : Frame(d) =>
            /\ OneOfEachInOrder(earthPage'.steps)
            /\ OneOfEachInOrder(gamePage'.steps)
            /\ earthPage'.renders = earthPage.renders + 1
            /\ gamePage'.renders = gamePage.renders + 1
            /\ earthPage'.pending = earthPage.pending
            /\ gamePage'.pending = gamePage.pending]_vars

\* two callbacks have run, two renders were made and one callback is pending
C13_TwoFramesTwoRenders ==
    /\ frames = 2
    /\ earthPage.renders = 2 /\ gamePage.renders = 2
    /\ earthPage.pending = 1 /\ gamePage.pending = 1
    /\ earthPage.steps = AnimateSteps /\ gamePage.steps = AnimateSteps

-----------------------------------------------------------------------------
(* C14 *)

\* C14: once initialization has requested the first frame a callback is
\* pending in every state, whatever events arrive; with a display that fires
\* every requested callback each frame is followed by the next (checked for
\* the first MaxFrames frames).
C14_FrameLoopNeverStops ==
    /\ [](pc = "running" => earthPage.pending = 1 /\ gamePage.pending = 1)
    /\ \A n \in 0 .. MaxFrames - 1 :
          (pc = "running" /\ frames = n)
             ~> (frames = n + 1 /\ earthPage.renders = n + 1 /\ gamePage.renders = n + 1)

\* the last frame within the bound was rendered and the next one is requested
C14_NextFrameRequested ==
    /\ frames = MaxFrames
    /\ earthPage.renders = MaxFrames /\ gamePage.renders = MaxFrames
    /\ earthPage.pending = 1 /\ gamePage.pending = 1
    /\ EarthOrbit.target_angle_v # 0 /\ wheels > 0

-----------------------------------------------------------------------------
(* C15 *)

\* the page with its camera somewhere else
CameraElsewhere(page) == [page EXCEPT !.camera.position = <<1, 1, 1>>]

\* C15: a pointer-move event changes only targetAngularVelocity, a wheel event
\* only zoom, a frame update only angle and angularVelocity (leaving the
\* target and zoom); the input handlers neither read nor write the camera
\* position.
C15_EachWritesItsOwn ==
    [][/\ \A rect \in Rects : \A clientX \in ClientXs(rect), clientY \in ClientYs(rect) :
             MouseMove(rect, clientX, clientY) =>
                LET event == [clientX |-> clientX, clientY |-> clientY]
                IN  /\ EarthOrbit' = [EarthOrbit EXCEPT
                                         !.target_angle_v = EarthOrbit'.target_angle_v]
                    /\ GameOrbit' = [GameOrbit EXCEPT
                                        !.target_angle_v = GameOrbit'.target_angle_v]
                    /\ handleMouseMove(CameraElsewhere(earthPage), event, rect) =
                          CameraElsewhere(earthPage')
                    /\ game_handleMouseMove(CameraElsewhere(gamePage), event, rect) =
                          CameraElsewhere(gamePage')
       /\ \A deltaY \in DeltaYs :
             WheelEvent(deltaY) =>
                LET event == [deltaY |-> deltaY]
                IN  /\ EarthOrbit' = [EarthOrbit EXCEPT !.zoom = EarthOrbit'.zoom]
                    /\ GameOrbit' = [GameOrbit EXCEPT !.zoom = GameOrbit'.zoom]
                    /\ handleWheel(CameraElsewhere(earthPage), event) =
                          CameraElsewhere(earthPage')
                    /\ game_handleWheel(CameraElsewhere(gamePage), event) =
                          CameraElsewhere(gamePage')
       \* single wheel events and runs of them
       /\ wheels' # wheels =>
             /\ EarthOrbit' = [EarthOrbit EXCEPT !.zoom = EarthOrbit'.zoom]
             /\ GameOrbit' = [GameOrbit EXCEPT !.zoom = GameOrbit'.zoom]
             /\ earthPage'.camera = earthPage.camera
             /\ gamePage'.camera = gamePage.camera
       /\ frames' # frames =>
             /\ EarthOrbit' = [EarthOrbit EXCEPT !.angle = EarthOrbit'.angle,
                                                 !.angle_v = EarthOrbit'.angle_v]
             /\ GameOrbit' = [GameOrbit EXCEPT !.angle = GameOrbit'.angle,
                                               !.angle_v = GameOrbit'.angle_v]
             /\ earthPage'.prevTime = now'
             /\ gamePage'.prevTime = now']_vars

\* the pointer, the wheel and a frame have each changed their part, and the
\* camera has been placed
C15_AllThreeActed ==
    /\ frames > 0
    /\ wheels > 0
    /\ EarthOrbit.target_angle_v # 0 /\ GameOrbit.target_angle_v # 0
    /\ EarthOrbit.zoom # ZSCALE /\ GameOrbit.zoom # ZSCALE
    /\ EarthOrbit.angle # 0 /\ GameOrbit.angle # 0
    /\ EarthOrbit.angle_v # EarthOrbit.target_angle_v
    /\ earthPage.camera.position # <<0, 0, 0>>
    /\ gamePage.camera.position # <<0, 0, 0>>

-----------------------------------------------------------------------------
(* C16 *)

\* where the code puts the camera for an angle and a zoom
Placed(angle, zoom) ==
    <<Round(16 * zoom * Cos(angle), SCALE), 0, Round(16 * zoom * Sin(angle), SCALE)>>

\* integration, then camera placement, then render, then the request
RunsInOrder(steps) ==
    /\ Before(steps, "integrate", "camera.position")
    /\ Before(steps, "camera.position", "render")
    /\ Before(steps, "render", "requestAnimationFrame")

\* C16: a frame callback runs to completion with no handler in between: the
\* camera it renders is computed from the angle its own integration produced
\* and the zoom the last wheel event before it left, and the next callback is
\* requested only at its end.
C16_FrameRunsToCompletion ==
    [][\A d \in Dts : Frame(d) =>
          /\ earthPage.pending = 1 /\ gamePage.pending = 1
          /\ EarthOrbit'.angle = EarthOrbit.angle + Mul(d, EarthOrbit'.angle_v)
          /\ GameOrbit'.angle = GameOrbit.angle + Mul(d, GameOrbit'.angle_v)
          /\ earthPage'.rendered.camera = Placed(EarthOrbit'.angle, EarthOrbit.zoom)
          /\ gamePage'.rendered.camera = Placed(GameOrbit'.angle, GameOrbit.zoom)
          /\ RunsInOrder(earthPage'.steps)
          /\ RunsInOrder(gamePage'.steps)
          /\ UNCHANGED wheels]_vars

\* a frame rendered after the pointer and the wheel had acted: the camera is
\* where the turned angle and the changed zoom put it
C16_RenderedAfterInputs ==
    /\ frames = 2
    /\ wheels = 1
    /\ EarthOrbit.zoom = 10290 /\ GameOrbit.zoom = 10290
    /\ EarthOrbit.angle # 0 /\ GameOrbit.angle # 0
    /\ earthPage.dt # <<0>>
    /\ earthPage.rendered.camera = Placed(EarthOrbit.angle, 10290)
    /\ gamePage.rendered.camera = Placed(GameOrbit.angle, 10290)

-----------------------------------------------------------------------------
(* C17 *)

\* the scene built once, after the listeners; the first frame requested last
InitOrder(steps) ==
    /\ Count(steps, "createScene") = 1
    /\ Count(steps, "requestAnimationFrame") = 1
    /\ Before(steps, "addEventListener mousemove", "createScene")
    /\ Before(steps, "addEventListener wheel", "createScene")
    /\ Before(steps, "createScene", "requestAnimationFrame")

\* the scene built once, then the listeners; the first frame requested last
ClaimedInitOrder(steps) ==
    /\ Count(steps, "createScene") = 1
    /\ Count(steps, "requestAnimationFrame") = 1
    /\ Before(steps, "createScene", "addEventListener mousemove")
    /\ Before(steps, "createScene", "addEventListener wheel")
    /\ Before(steps, "addEventListener mousemove", "requestAnimationFrame")
    /\ Before(steps, "addEventListener wheel", "requestAnimationFrame")

\* one of the Scene objects allocated holds bodies
BuiltOnce(heap) == Cardinality({i \in DOMAIN heap : Len(heap[i]) > 0}) = 1

\* what initialization leaves, and that nothing builds a scene, registers a
\* listener or requests a frame outside the frame loop afterwards
InitLeaves ==
    /\ Load =>
          /\ BuiltOnce(earthPage'.heap) /\ BuiltOnce(gamePage'.heap)
          /\ earthPage'.scene \in DOMAIN earthPage'.heap
          /\ gamePage'.scene \in DOMAIN gamePage'.heap
          /\ earthPage'.listeners = {"mousemove", "wheel"}
          /\ gamePage'.listeners = {"mousemove", "wheel"}
          /\ earthPage'.pending = 1 /\ gamePage'.pending = 1
    /\ pc = "loading" => earthPage.pending = 0 /\ gamePage.pending = 0
    /\ pc = "running" =>
          /\ earthPage'.heap = earthPage.heap /\ gamePage'.heap = gamePage.heap
          /\ earthPage'.scene = earthPage.scene /\ gamePage'.scene = gamePage.scene
          /\ earthPage'.listeners = earthPage.listeners
          /\ gamePage'.listeners = gamePage.listeners

\* C17, as claimed: initialization builds the scene exactly once, then
\* registers the pointer and wheel listeners, then requests the first frame;
\* the scene is never built again and no frame is requested before the scene
\* exists and the listeners are registered.
C17_InitOrderAsClaimed ==
    [][/\ InitLeaves
       /\ Load => /\ ClaimedInitOrder(earthPage'.steps)
                  /\ ClaimedInitOrder(gamePage'.steps)]_vars

\* C17, amended: initialization registers the pointer and wheel listeners,
\* then builds the scene exactly once, then requests the first frame; the
\* scene is never built again and no frame is requested before the scene
\* exists and the listeners are registered.
C17_InitOrder ==
    [][/\ InitLeaves
       /\ Load => /\ InitOrder(earthPage'.steps)
                  /\ InitOrder(gamePage'.steps)]_vars

\* both pages initialized and frames rendered since, the scene still the one
\* built at initialization
C17_InitializedOnce ==
    /\ pc = "running"
    /\ frames = MaxFrames
    /\ BuiltOnce(earthPage.heap) /\ BuiltOnce(gamePage.heap)
    /\ earthPage.rendered.scene = earthPage.heap[earthPage.scene]
    /\ earthPage.listeners = {"mousemove", "wheel"}
    /\ gamePage.listeners = {"mousemove", "wheel"}
    /\ EarthOrbit.target_angle_v # 0

-----------------------------------------------------------------------------
(* C18 *)

\* C18: fed the same events, the standalone script and the Game variant hold
\* the same angle, angularVelocity, targetAngularVelocity and zoom after every
\* step and put the camera at the same position in every frame.
C18_SameController ==
    pc = "running" =>
       /\ EarthOrbit = GameOrbit
       /\ earthPage.prevTime = gamePage.prevTime
       /\ earthPage.camera.position = gamePage.camera.position
       /\ frames > 0 => earthPage.rendered.camera = gamePage.rendered.camera

\* both controllers after pointer, wheel and frame events: turned, zoomed in
\* to the bound, the target beyond 2.5
C18_BothTurnedAndZoomed ==
    /\ frames = 2
    /\ wheels > 0
    /\ EarthOrbit.target_angle_v = 7500 /\ GameOrbit.target_angle_v = 7500
    /\ EarthOrbit.zoom = 4300 /\ GameOrbit.zoom = 4300
    /\ EarthOrbit.angle # 0 /\ GameOrbit.angle = EarthOrbit.angle
    /\ earthPage.rendered.camera[3] # 0
    /\ gamePage.rendered.camera = earthPage.rendered.camera

-----------------------------------------------------------------------------
(* C19 *)

\* vertical coordinates an event at the same place could have had instead
OtherClientYs(rect) == ClientYs(rect) \cup {-rect.height, rect.left, 10 * rect.height}

\* C19: the pointer's vertical coordinate does not influence the state: the
\* event with any other clientY, and so any other y, leaves both pages exactly
\* as the event delivered did, so runs that differ in clientY alone agree on
\* angle, angularVelocity, target, zoom and camera after every step.
C19_VerticalIgnored ==
    [][\A rect \in Rects : \A clientX \in ClientXs(rect), clientY \in ClientYs(rect) :
          PointerMove(rect, clientX, clientY) =>
             \A other \in OtherClientYs(rect) :
                LET event == [clientX |-> clientX, clientY |-> other]
                IN  /\ handleMouseMove(earthPage, event, rect) = earthPage'
                    /\ game_handleMouseMove(gamePage, event, rect) = gamePage']_vars

\* a pointer event whose y, taken from rect.left, came out negative has set a
\* target, and a frame has turned the camera since
C19_OddVerticalSeen ==
    /\ pointer # <<>>
    /\ pointer[1].y < 0
    /\ frames > 0
    /\ EarthOrbit.target_angle_v # 0 /\ GameOrbit.target_angle_v # 0
    /\ earthPage.rendered.camera[3] # 0 /\ gamePage.rendered.camera[3] # 0

-----------------------------------------------------------------------------
(* C20 *)

StartOrbit == [angle |-> 0, angle_v |-> 0, target_angle_v |-> 0, zoom |-> ZSCALE]

\* on the +x axis, at a distance zoom allows
OnPlusX(position) ==
    /\ position[1] \in 16 * 4300 .. 16 * 30000
    /\ position[2] = 0
    /\ position[3] = 0

\* C20: the orbit state starts at angle 0, angularVelocity 0, target 0, zoom 1,
\* and as long as no pointer-move event has arrived angle and angularVelocity
\* stay 0 through any frames and wheel events: only zoom, and the camera's
\* distance along +x, change.
C20_AtRestUntilPointerMoves ==
    pointer = <<>> =>
       /\ \A o \in Orbits : o.angle = 0 /\ o.angle_v = 0 /\ o.target_angle_v = 0
       /\ wheels = 0 => \A o \in Orbits : o = StartOrbit
       /\ frames > 0 => /\ OnPlusX(earthPage.rendered.camera)
                        /\ OnPlusX(gamePage.rendered.camera)

\* no pointer event yet; the wheel has changed zoom and two frames, the last
\* a second long, have rendered the camera on the +x axis at 16 zoom
C20_ZoomedAtRest ==
    /\ pointer = <<>>
    /\ frames = 2
    /\ wheels = 1
    /\ earthPage.dt = <<1000>> /\ gamePage.dt = <<1000>>
    /\ EarthOrbit.zoom # ZSCALE /\ GameOrbit.zoom = EarthOrbit.zoom
    /\ earthPage.rendered.camera = <<16 * EarthOrbit.zoom, 0, 0>>
    /\ gamePage.rendered.camera = <<16 * GameOrbit.zoom, 0, 0>>

-----------------------------------------------------------------------------
(* C21 *)

\* v2 lies between v and target, ends included
Between(v, v2, target) == Min(v, target) <= v2 /\ v2 <= Max(v, target)

\* C21: a frame update never overshoots the target: from every reachable state
\* with targetAngularVelocity in [-2.5, 2.5], and for every dt >= 0, the new
\* angularVelocity lies between the old angularVelocity and the target, so the
\* gap neither grows nor changes sign in a frame.
C21_NoOvershoot ==
    [][frames' # frames =>
          /\ EarthOrbit.target_angle_v \in -2500 .. 2500 =>
                Between(EarthOrbit.angle_v, EarthOrbit'.angle_v, EarthOrbit.target_angle_v)
          /\ GameOrbit.target_angle_v \in -2500 .. 2500 =>
                Between(GameOrbit.angle_v, GameOrbit'.angle_v, GameOrbit.target_angle_v)]_vars

====
